---- MODULE Spec2Model ----
(***************************************************************************)
(* Quest progression and rewards of sideqst: the client service            *)
(* (lib/services/questService.ts) issuing single statements against the    *)
(* Postgres schema (supabase_schema.sql), and the plpgsql award functions  *)
(* of that schema.  Every statement the client awaits is one atomic step   *)
(* of the database; a handler with several awaits is several steps.        *)
(***************************************************************************)
EXTENDS Integers, FiniteSets, Sequences, TLC

\* ------------------------------------------------------------------ bounds
MaxTime == 1
MaxSubmissions == 2
MaxAwards == 1
MaxXp == 410
MaxRewardDefs == 2
MaxRewardCalls == 2
MaxSeconds == 400
MaxCompletionAwards == 2

\* --------------------------------------------------------- value encodings
\* SQL NULL in an integer or timestamp column.
NULL == -1
\* JavaScript `undefined` and NaN as they occur in number-typed expressions.
Undefined == -2
NaN == -3
\* SQL NULL / JS null in the uuid column quest_submissions.step_id.
NoStep == "null"

\* ------------------------------------------------------------ fixed tables
Users == {"u1", "u2"}
Sessions == {"s1", "s2"}
Quests == {"q1", "q2"}

\* The role that runs the SQL scripts (schema, seeds): owner of the tables,
\* to whom row level security does not apply.
Owner == "owner"
BypassesRls(c) == c = Owner

\* auth.uid() of a caller: s1 and s2 are two devices of the same user u1, s3
\* is a device of u2; the owner's scripts run without a signed-in user.
NoUid == "null"
AuthUid(s) ==
  CASE s = "s3" -> "u2"
    [] s = Owner -> NoUid
    [] OTHER -> "u1"

\* quests.base_xp_reward (integer default 100): q1 keeps the default, q2 is
\* worth 105.
base_xp_reward(q) == IF q = "q2" THEN 105 ELSE 100

\* quest_steps rows; q1 has one step, q2 has two.
quest_steps ==
  { [id |-> "st11", quest_id |-> "q1", step_number |-> 1,
     requires_check_in |-> FALSE, step_xp_reward |-> 25],
    [id |-> "st21", quest_id |-> "q2", step_number |-> 1,
     requires_check_in |-> TRUE, step_xp_reward |-> 25],
    [id |-> "st22", quest_id |-> "q2", step_number |-> 2,
     requires_check_in |-> FALSE, step_xp_reward |-> 25] }

StepIds == { st.id : st \in quest_steps }
StepRow(id) == CHOOSE st \in quest_steps : st.id = id
StepsOf(q) == { st \in quest_steps : st.quest_id = q }
NumSteps(q) == Cardinality(StepsOf(q))

VARIABLES
  user_quests,        \* table user_quests: a set of rows
  quest_submissions,  \* table quest_submissions: a set of rows
  profiles,           \* table profiles: user_id -> [xp, level]
  now,                \* wall clock / now()
  pc,                 \* per session: where its pending handler stands
  local,              \* per session: locals of the pending handler
  result,             \* outcome of the call that finished last
  awards,             \* number of award-function calls started
  friendships,        \* table friendships: a set of rows
  user_badges,        \* table user_badges: a set of rows
  user_titles,        \* table user_titles: a set of rows
  quest_rewards,      \* table quest_rewards: a set of rows
  achievement_rewards,\* table achievement_rewards: a set of rows
  eval                \* arguments and results of a function evaluation

\* The tables of the reward schema and the social graph, which the quest
\* service never touches.
engineVars == <<friendships, user_badges, user_titles, quest_rewards,
                achievement_rewards, eval>>

vars == <<user_quests, quest_submissions, profiles, now, pc, local, result, awards,
          friendships, user_badges, user_titles, quest_rewards,
          achievement_rewards, eval>>

\* --------------------------------------------------------------- user_quests
\* Column defaults of the table: what `insert (user_id, quest_id)` stores.
DefaultUserQuest(id, u, q) ==
  [id |-> id, user_id |-> u, quest_id |-> q,
   is_accepted |-> FALSE, accepted_at |-> NULL,
   is_completed |-> FALSE, completed_at |-> NULL,
   current_step |-> 0, last_submission_at |-> NULL]

\* A row of a finished quest, as check_friend_synergy expects to find them.
CompletedUserQuest(id, u, q) ==
  [id |-> id, user_id |-> u, quest_id |-> q,
   is_accepted |-> TRUE, accepted_at |-> 0,
   is_completed |-> TRUE, completed_at |-> 0,
   current_step |-> NumSteps(q) + 1, last_submission_at |-> 0]

\* Rows present before any client call: none on q1; for u1 on q2 either no
\* row, a row holding the column defaults, or a completed row.
SeedUserQuests ==
  { {},
    {DefaultUserQuest(<<<<"u1", "q2">>, 1>>, "u1", "q2")},
    {CompletedUserQuest(<<<<"u1", "q2">>, 1>>, "u1", "q2")} }

RowsOf(u, q) == { r \in user_quests : r.user_id = u /\ r.quest_id = q }

\* uuid_generate_v4(): an id no row of the table has.  The model's ids are
\* <<key, k>>, key being the content of the row and k counting the rows of
\* that content, so that ids are unique and rows of different content are
\* not ordered by them.
NextId(table, key) ==
  <<key, 1 + Cardinality({ r \in table : r.id[1] = key })>>

\* The table without its unique(user_id, quest_id) constraint.
UserQuestsUniqueOk_dropped(u, q) == TRUE

\* unique(user_id, quest_id)
UserQuestsUniqueOk(u, q) == RowsOf(u, q) = {}

\* user_quests with an insert policy that checks nothing.
UserQuestsInsertPolicy_open(s, u) == TRUE

\* policy "Users can manage own quest progress": with check (auth.uid() = user_id)
UserQuestsInsertPolicy(s, u) == AuthUid(s) = u

\* policy "Users can update own quest progress": using (auth.uid() = user_id)
UserQuestsUpdatePolicy(s, r) == AuthUid(s) = r.user_id

\* policy "Users can create own submissions": with check (auth.uid() = user_id)
SubmissionsInsertPolicy(s, u) == AuthUid(s) = u

\* ------------------------------------------------------------------- results
NoResult == "none"

\* Locals of a pending submitQuestStep: `data`, the row the insert returned
\* (the submission that was sent plus its generated id).
NoLocal == [id |-> <<>>, user_id |-> "u1", quest_id |-> "q1", step_id |-> NoStep,
            check_in_location |-> FALSE]

\* ------------------------------------------------------------------ acceptQuest
\* An insert of (user_id, quest_id) alone: every other column at its default.
AcceptedUserQuest_defaults(id, u, q) == DefaultUserQuest(id, u, q)

\* The row acceptQuest sends: is_accepted, accepted_at and current_step set,
\* every other column left to its default.
AcceptedUserQuest(id, u, q) ==
  [id |-> id, user_id |-> u, quest_id |-> q,
   is_accepted |-> TRUE, accepted_at |-> now,
   is_completed |-> FALSE, completed_at |-> NULL,
   current_step |-> 1, last_submission_at |-> NULL]

\* acceptQuest written as an upsert: an existing row is overwritten.
acceptQuest_upsert(s, q, u) ==
  /\ pc[s] = "idle"
  /\ IF ~UserQuestsInsertPolicy(s, u)
       THEN /\ result' = "forbidden"
            /\ UNCHANGED user_quests
     ELSE /\ user_quests' = (user_quests \ RowsOf(u, q)) \cup
               { AcceptedUserQuest(NextId(user_quests, <<u, q>>), u, q) }
          /\ result' = "ok"
  /\ UNCHANGED <<quest_submissions, profiles, now, pc, local, awards>>
  /\ UNCHANGED engineVars

\* questService.acceptQuest(questId, userId): one insert; PostgREST reports
\* the row-level-security violation (42501) or the unique violation (23505,
\* HTTP 409 Conflict) as `error`, which the service throws.
acceptQuest(s, q, u) ==
  /\ pc[s] = "idle"
  /\ IF ~UserQuestsInsertPolicy(s, u)
       THEN /\ result' = "forbidden"
            /\ UNCHANGED user_quests
     ELSE IF ~UserQuestsUniqueOk(u, q)
       THEN /\ result' = "conflict"
            /\ UNCHANGED user_quests
     ELSE /\ user_quests' = user_quests \cup
               { AcceptedUserQuest(NextId(user_quests, <<u, q>>), u, q) }
          /\ result' = "ok"
  /\ UNCHANGED <<quest_submissions, profiles, now, pc, local, awards>>
  /\ UNCHANGED engineVars

\* ----------------------------------------------------------- submitQuestStep
\* First half of questService.submitQuestStep: the storage upload (which the
\* storage service may refuse) and the insert into quest_submissions.  The
\* insert checks the row-level-security policy and nothing else about the
\* caller's progress: user_quests is not read.
submitQuestStepInsert(s, u, q, st, loc, uploadOk) ==
  /\ pc[s] = "idle"
  /\ IF ~uploadOk
       THEN /\ result' = "upload_error"
            /\ UNCHANGED <<quest_submissions, pc, local>>
     ELSE IF ~SubmissionsInsertPolicy(s, u)
       THEN /\ result' = "forbidden"
            /\ UNCHANGED <<quest_submissions, pc, local>>
     ELSE /\ Cardinality(quest_submissions) < MaxSubmissions
          /\ LET data == [id |-> NextId(quest_submissions, <<u, q, st, loc>>),
                          user_id |-> u,
                          quest_id |-> q, step_id |-> st,
                          check_in_location |-> loc]
             IN /\ quest_submissions' = quest_submissions \cup {data}
                /\ local' = [local EXCEPT ![s] = data]
          /\ pc' = [pc EXCEPT ![s] = "inserted"]
          /\ UNCHANGED result
  /\ UNCHANGED <<user_quests, profiles, now, awards>>
  /\ UNCHANGED engineVars

\* Inputs of a submission: a step of the quest; a check-in location is only
\* ever attached for a step that asks for one.
StepInputs(q) == { st.id : st \in StepsOf(q) }
LocationInputs(st) ==
  IF st # NoStep /\ StepRow(st).requires_check_in THEN BOOLEAN ELSE {FALSE}

\* JavaScript truthiness of submission.step_id (a uuid string or null).
Truthy(step_id) == step_id # NoStep

\* JavaScript property read `row.current_step`: undefined when the object
\* has no such property.  `data` is a quest_submissions row, and that table
\* has no current_step column.
JsCurrentStepOf(row) ==
  IF "current_step" \in DOMAIN row THEN row.current_step ELSE Undefined

\* JavaScript `x + 1` on a number-or-undefined operand.
JsPlusOne(x) == IF x = Undefined \/ x = NaN THEN NaN ELSE x + 1

\* submission.step_id ? data.current_step + 1 : data.current_step
NewCurrentStepExpr(step_id, data) ==
  IF Truthy(step_id) THEN JsPlusOne(JsCurrentStepOf(data)) ELSE JsCurrentStepOf(data)

\* JSON.stringify of the update payload: an undefined property is dropped
\* (the column is not written), NaN is serialised as null.
PatchCurrentStep(old, v) ==
  IF v = Undefined THEN old
  ELSE IF v = NaN THEN NULL
  ELSE v

\* Second half of questService.submitQuestStep: the update of user_quests
\* filtered by user_id and quest_id.  Its error is not inspected; the call
\* returns the inserted submission row.
submitQuestStepUpdate(s) ==
  /\ pc[s] = "inserted"
  /\ LET u == local[s].user_id
         q == local[s].quest_id
         hit(r) == r.user_id = u /\ r.quest_id = q /\ UserQuestsUpdatePolicy(s, r)
     IN user_quests' =
          { IF hit(r)
              THEN [r EXCEPT !.current_step =
                               PatchCurrentStep(r.current_step,
                                                NewCurrentStepExpr(local[s].step_id, local[s])),
                             !.last_submission_at = now]
              ELSE r : r \in user_quests }
  /\ result' = "ok"
  /\ pc' = [pc EXCEPT ![s] = "idle"]
  /\ local' = [local EXCEPT ![s] = NoLocal]
  /\ UNCHANGED <<quest_submissions, profiles, now, awards>>
  /\ UNCHANGED engineVars

\* ------------------------------------------------------------ level and XP
\* floor(sqrt(n)) of a non-negative integer.
Isqrt(n) == CHOOSE r \in 0..n : r * r <= n /\ (r + 1) * (r + 1) > n

\* The tiers as the function's comment words them: floor(sqrt(xp/100)).
calculate_level_floor_only(xp) == Isqrt(xp \div 100)

\* calculate_level(xp): xp/100 divides two integers, so it is integer
\* division; then floor(sqrt(..))::integer + 1.
calculate_level(xp) == Isqrt(xp \div 100) + 1

\* policy "Users can update own profile": using (auth.uid() = user_id)
ProfilesUpdatePolicy(s, u) == AuthUid(s) = u

\* `update profiles set xp = new_xp where user_id = u` with the trigger
\* update_level_on_xp_change (before update of xp): new.level :=
\* calculate_level(new.xp).  A row the policy hides is silently skipped.
UpdateProfileXp(s, u, new_xp) ==
  IF u \in DOMAIN profiles /\ (BypassesRls(s) \/ ProfilesUpdatePolicy(s, u))
    THEN [profiles EXCEPT ![u] = [xp |-> new_xp, level |-> calculate_level(new_xp)]]
    ELSE profiles

\* award_step_xp(p_user_id, p_quest_id, p_step_id), called through the
\* database API.  Its two selects read the step reward and the current xp;
\* under READ COMMITTED other statements may commit before its update runs.
award_step_xp_Select(s, p_user_id, p_quest_id, p_step_id) ==
  /\ pc[s] = "idle"
  /\ awards < MaxAwards
  /\ awards' = awards + 1
  /\ pc' = [pc EXCEPT ![s] = "award_step_xp"]
  /\ local' = [local EXCEPT ![s] =
       [p_user_id |-> p_user_id,
        v_step_xp |-> StepRow(p_step_id).step_xp_reward,
        v_current_xp |-> profiles[p_user_id].xp]]
  /\ UNCHANGED <<user_quests, quest_submissions, profiles, now, result>>
  /\ UNCHANGED engineVars

award_step_xp_Update(s) ==
  /\ pc[s] = "award_step_xp"
  /\ profiles' = UpdateProfileXp(s, local[s].p_user_id,
                                 local[s].v_current_xp + local[s].v_step_xp)
  /\ result' = "ok"
  /\ pc' = [pc EXCEPT ![s] = "idle"]
  /\ local' = [local EXCEPT ![s] = NoLocal]
  /\ UNCHANGED <<user_quests, quest_submissions, now, awards>>
  /\ UNCHANGED engineVars

\* ------------------------------------------------------------------- clock
Tick ==
  /\ now < MaxTime
  /\ now' = now + 1
  /\ UNCHANGED <<user_quests, quest_submissions, profiles, pc, local, result, awards>>
  /\ UNCHANGED engineVars

\* ------------------------------------------------------------ specification
\* No evaluation recorded.
NoEval == [xp1 |-> NULL, xp2 |-> NULL, level1 |-> NULL, level2 |-> NULL]

\* A database without friendships, grants or reward definitions.
InitEngineVars ==
  /\ friendships = {}
  /\ user_badges = {}
  /\ user_titles = {}
  /\ quest_rewards = {}
  /\ achievement_rewards = {}
  /\ eval = NoEval

Init ==
  /\ user_quests \in SeedUserQuests
  /\ quest_submissions = {}
  /\ profiles = [u \in Users |-> [xp |-> 0, level |-> 1]]
  /\ now = 0
  /\ pc = [s \in Sessions |-> "idle"]
  /\ local = [s \in Sessions |-> NoLocal]
  /\ result = NoResult
  /\ awards = 0
  /\ InitEngineVars

\* A user other than the session's own, for calls made in another's name.
OtherUser(s) == CHOOSE u \in Users : u # AuthUid(s)

\* The operations the client performs (lib/services/questService.ts): each
\* call in the caller's own name with every input, a submission that names
\* no step, and one call each in another user's name and with a failing
\* upload (calls that end in the same error whatever their other inputs are).
Next ==
  \/ \E s \in Sessions, q \in Quests : acceptQuest(s, q, AuthUid(s))
  \/ \E s \in Sessions : acceptQuest(s, "q1", OtherUser(s))
  \/ \E s \in Sessions, q \in Quests :
       \E st \in StepInputs(q) : \E loc \in LocationInputs(st) :
          submitQuestStepInsert(s, AuthUid(s), q, st, loc, TRUE)
  \/ \E s \in Sessions : submitQuestStepInsert(s, AuthUid(s), "q1", NoStep, FALSE, TRUE)
  \/ \E s \in Sessions : submitQuestStepInsert(s, OtherUser(s), "q1", "st11", FALSE, TRUE)
  \/ \E s \in Sessions : submitQuestStepInsert(s, AuthUid(s), "q1", "st11", FALSE, FALSE)
  \/ \E s \in Sessions : submitQuestStepUpdate(s)
  \/ Tick

Spec == Init /\ [][Next]_vars

\* The client's operations together with the award functions of the schema,
\* which no client code calls but the database API exposes.
NextWithAwards ==
  \/ Next
  \/ \E s \in Sessions, st \in StepIds :
       award_step_xp_Select(s, AuthUid(s), StepRow(st).quest_id, st)
  \/ \E s \in Sessions : award_step_xp_Update(s)

SpecWithAwards == Init /\ [][NextWithAwards]_vars

\* ------------------------------------------------------------ reward ledger
Badges == {"b1"}
Titles == {"t1"}

\* The callers of the reward functions: a signed-in user and the owner.
EngineCallers == {"s1", Owner}

\* user_badges and user_titles have select and update policies only: with row
\* level security enabled and no insert policy, an insert is refused to every
\* role the policies apply to.
GrantInsertPolicy(c) == BypassesRls(c)

\* policies "Users can update their equipped badges / titles":
\* using (auth.uid() = user_id)
GrantUpdatePolicy(c, r) == BypassesRls(c) \/ AuthUid(c) = r.user_id

HoldsBadge(u, b) == \E r \in user_badges : r.user_id = u /\ r.badge_id = b
HoldsTitle(u, t) == \E r \in user_titles : r.user_id = u /\ r.title_id = t

\* The row `insert into user_badges (user_id, badge_id)` stores.
NewUserBadge(u, b) ==
  [id |-> NextId(user_badges, <<u, b>>), user_id |-> u, badge_id |-> b,
   is_equipped |-> FALSE, earned_at |-> now]

\* The row `insert into user_titles (user_id, title_id)` stores.
NewUserTitle(u, t) ==
  [id |-> NextId(user_titles, <<u, t>>), user_id |-> u, title_id |-> t,
   is_equipped |-> FALSE, earned_at |-> now]

\* The insert of award_badge and its outcome: the policy check of the
\* proposed row comes first, then `on conflict (user_id, badge_id) do nothing`.
BadgesAfterAward(c, u, b) ==
  IF GrantInsertPolicy(c) /\ ~HoldsBadge(u, b)
    THEN user_badges \cup {NewUserBadge(u, b)}
    ELSE user_badges

TitlesAfterAward(c, u, t) ==
  IF GrantInsertPolicy(c) /\ ~HoldsTitle(u, t)
    THEN user_titles \cup {NewUserTitle(u, t)}
    ELSE user_titles

\* award_badge with a plain insert: a second grant hits unique(user_id, badge_id).
award_badge_plain_insert(c, p_user_id, p_badge_id) ==
  /\ pc[c] = "idle"
  /\ IF ~GrantInsertPolicy(c)
       THEN /\ result' = "forbidden"
            /\ UNCHANGED user_badges
     ELSE IF HoldsBadge(p_user_id, p_badge_id)
       THEN /\ result' = "conflict"
            /\ UNCHANGED user_badges
     ELSE /\ user_badges' = user_badges \cup {NewUserBadge(p_user_id, p_badge_id)}
          /\ result' = "ok"
  /\ UNCHANGED <<user_quests, quest_submissions, profiles, now, pc, local, awards,
                 friendships, user_titles, quest_rewards, achievement_rewards, eval>>

\* award_badge(p_user_id, p_badge_id)
award_badge(c, p_user_id, p_badge_id) ==
  /\ pc[c] = "idle"
  /\ user_badges' = BadgesAfterAward(c, p_user_id, p_badge_id)
  /\ result' = IF GrantInsertPolicy(c) THEN "ok" ELSE "forbidden"
  /\ UNCHANGED <<user_quests, quest_submissions, profiles, now, pc, local, awards,
                 friendships, user_titles, quest_rewards, achievement_rewards, eval>>

\* award_title(p_user_id, p_title_id)
award_title(c, p_user_id, p_title_id) ==
  /\ pc[c] = "idle"
  /\ user_titles' = TitlesAfterAward(c, p_user_id, p_title_id)
  /\ result' = IF GrantInsertPolicy(c) THEN "ok" ELSE "forbidden"
  /\ UNCHANGED <<user_quests, quest_submissions, profiles, now, pc, local, awards,
                 friendships, user_badges, quest_rewards, achievement_rewards, eval>>

\* `update user_badges set is_equipped = v where id = r.id`, the one write
\* the policies leave to the holder of a badge.
set_badge_equipped(c, r, v) ==
  /\ pc[c] = "idle"
  /\ r \in user_badges
  /\ user_badges' = IF GrantUpdatePolicy(c, r)
                      THEN (user_badges \ {r}) \cup {[r EXCEPT !.is_equipped = v]}
                      ELSE user_badges
  /\ result' = "updated"
  /\ UNCHANGED <<user_quests, quest_submissions, profiles, now, pc, local, awards,
                 friendships, user_titles, quest_rewards, achievement_rewards, eval>>

\* `update user_titles set is_equipped = v where id = r.id`
set_title_equipped(c, r, v) ==
  /\ pc[c] = "idle"
  /\ r \in user_titles
  /\ user_titles' = IF GrantUpdatePolicy(c, r)
                      THEN (user_titles \ {r}) \cup {[r EXCEPT !.is_equipped = v]}
                      ELSE user_titles
  /\ result' = "updated"
  /\ UNCHANGED <<user_quests, quest_submissions, profiles, now, pc, local, awards,
                 friendships, user_badges, quest_rewards, achievement_rewards, eval>>

\* The database of the reward functions before any call: users with their
\* profiles, no grants, no reward definitions.
InitEngine ==
  /\ user_quests = {}
  /\ quest_submissions = {}
  /\ profiles = [u \in Users |-> [xp |-> 0, level |-> 1]]
  /\ now = 0
  /\ pc = [c \in EngineCallers |-> "idle"]
  /\ local = [c \in EngineCallers |-> NoLocal]
  /\ result = NoResult
  /\ awards = 0
  /\ InitEngineVars

NextLedger ==
  \/ \E c \in EngineCallers, u \in Users, b \in Badges : award_badge(c, u, b)
  \/ \E c \in EngineCallers, u \in Users, t \in Titles : award_title(c, u, t)
  \/ \E r \in user_badges, v \in BOOLEAN : set_badge_equipped("s1", r, v)
  \/ \E r \in user_titles, v \in BOOLEAN : set_title_equipped("s1", r, v)
  \/ Tick

SpecLedger == InitEngine /\ [][NextLedger]_vars

\* -------------------------------------------------------- reward definitions
\* SQL NULL in the uuid columns badge_id and title_id.
NoItem == "null"
Achievements == {"a1"}

\* quest_rewards and achievement_rewards have a select policy only: inserts
\* are refused to every role the policies apply to.
RewardsInsertPolicy(c) == BypassesRls(c)

\* quest_rewards as the migration script first recreates it: no check.
QuestRewardsCheck_none(badge_id, title_id) == TRUE

\* check (not (badge_id is not null and title_id is not null))
QuestRewardsCheck(badge_id, title_id) ==
  ~(badge_id # NoItem /\ title_id # NoItem)

\* A check that only forbids setting two of the three.
AchievementRewardsCheck_at_most_one(badge_id, title_id, xp_reward) ==
  Cardinality({ k \in {1, 2, 3} :
                  \/ k = 1 /\ badge_id # NoItem
                  \/ k = 2 /\ title_id # NoItem
                  \/ k = 3 /\ xp_reward # NULL }) <= 1

\* check ((badge and not title and not xp) or (title and not badge and not
\* xp) or (xp and not badge and not title))
AchievementRewardsCheck(badge_id, title_id, xp_reward) ==
  \/ (badge_id # NoItem /\ title_id = NoItem /\ xp_reward = NULL)
  \/ (badge_id = NoItem /\ title_id # NoItem /\ xp_reward = NULL)
  \/ (badge_id = NoItem /\ title_id = NoItem /\ xp_reward # NULL)

QuestRewardRow(table, q, xp, b, t) ==
  [id |-> NextId(table, <<q, xp, b, t>>), quest_id |-> q, xp_reward |-> xp,
   badge_id |-> b, title_id |-> t]

AchievementRewardRow(table, a, b, t, xp) ==
  [id |-> NextId(table, <<a, b, t, xp>>), achievement_id |-> a, badge_id |-> b,
   title_id |-> t, xp_reward |-> xp]

\* `insert into quest_rewards (quest_id, xp_reward, badge_id, title_id)`:
\* policy check, then `xp_reward integer not null`, then the table's check.
insert_quest_reward(c, q, xp, b, t) ==
  /\ pc[c] = "idle"
  /\ IF ~RewardsInsertPolicy(c)
       THEN /\ result' = "forbidden"
            /\ UNCHANGED quest_rewards
     ELSE IF xp = NULL
       THEN /\ result' = "not_null_violation"
            /\ UNCHANGED quest_rewards
     ELSE IF ~QuestRewardsCheck(b, t)
       THEN /\ result' = "quest_rewards_check"
            /\ UNCHANGED quest_rewards
     ELSE /\ Cardinality(quest_rewards) < MaxRewardDefs
          /\ quest_rewards' = quest_rewards \cup {QuestRewardRow(quest_rewards, q, xp, b, t)}
          /\ result' = "ok"
  /\ UNCHANGED <<user_quests, quest_submissions, profiles, now, pc, local, awards,
                 friendships, user_badges, user_titles, achievement_rewards, eval>>

\* The migration script that drops quest_rewards, recreates it without a
\* check, inserts three rows (quest only; xp 150; xp 200 with a badge) and
\* then adds the check (badge_id is null or title_id is null), which the
\* three rows pass.  The script is one batch of the owner: no other statement
\* sees the table between its drop and the added check.
recreate_quest_rewards ==
  /\ pc[Owner] = "idle"
  /\ LET r1 == QuestRewardRow({}, "q1", 100, NoItem, NoItem)
         r2 == QuestRewardRow({r1}, "q1", 150, NoItem, NoItem)
         r3 == QuestRewardRow({r1, r2}, "q1", 200, "b1", NoItem)
     IN /\ \A r \in {r1, r2, r3} : r.badge_id = NoItem \/ r.title_id = NoItem
        /\ quest_rewards' = {r1, r2, r3}
  /\ result' = "ok"
  /\ UNCHANGED <<user_quests, quest_submissions, profiles, now, pc, local, awards,
                 friendships, user_badges, user_titles, achievement_rewards, eval>>

\* `insert into achievement_rewards (achievement_id, badge_id, title_id,
\* xp_reward)`: policy check, then the table's check.
insert_achievement_reward(c, a, b, t, xp) ==
  /\ pc[c] = "idle"
  /\ IF ~RewardsInsertPolicy(c)
       THEN /\ result' = "forbidden"
            /\ UNCHANGED achievement_rewards
     ELSE IF ~AchievementRewardsCheck(b, t, xp)
       THEN /\ result' = "achievement_rewards_check"
            /\ UNCHANGED achievement_rewards
     ELSE /\ Cardinality(achievement_rewards) < MaxRewardDefs
          /\ achievement_rewards' =
               achievement_rewards \cup {AchievementRewardRow(achievement_rewards, a, b, t, xp)}
          /\ result' = "ok"
  /\ UNCHANGED <<user_quests, quest_submissions, profiles, now, pc, local, awards,
                 friendships, user_badges, user_titles, quest_rewards, eval>>

\* Values offered for the columns of a reward definition.
BadgeInputs == {NoItem} \cup Badges
TitleInputs == {NoItem} \cup Titles
QuestXpInputs == {NULL, 100}
AchievementXpInputs == {NULL, 50}

NextRewardDefs ==
  \/ \E c \in EngineCallers, xp \in QuestXpInputs, b \in BadgeInputs, t \in TitleInputs :
       insert_quest_reward(c, "q1", xp, b, t)
  \/ recreate_quest_rewards
  \/ \E c \in EngineCallers, a \in Achievements :
       \E b \in BadgeInputs, t \in TitleInputs, xp \in AchievementXpInputs :
          insert_achievement_reward(c, a, b, t, xp)

SpecRewardDefs == InitEngine /\ [][NextRewardDefs]_vars

\* ------------------------------------------------------------ reward awards
\* Sum of xp_reward over the rows of a reward table that set it.
RECURSIVE SumXpReward(_)
SumXpReward(rows) ==
  IF rows = {} THEN 0
  ELSE LET r == CHOOSE x \in rows : TRUE
       IN (IF r.xp_reward # NULL THEN r.xp_reward ELSE 0) + SumXpReward(rows \ {r})

\* The loop run statement by statement without a surrounding transaction: a
\* refused grant leaves the xp of the other rows applied.
AwardRewardRows_no_rollback(c, p_user_id, rows) ==
  LET badges == { r.badge_id : r \in { x \in rows : x.badge_id # NoItem } }
      titles == { r.title_id : r \in { x \in rows : x.title_id # NoItem } }
      xpRows == { r \in rows : r.xp_reward # NULL }
      granted == (badges = {} /\ titles = {}) \/ GrantInsertPolicy(c)
  IN /\ user_badges' = user_badges \cup
          { NewUserBadge(p_user_id, b) :
              b \in { x \in badges : granted /\ ~HoldsBadge(p_user_id, x) } }
     /\ user_titles' = user_titles \cup
          { NewUserTitle(p_user_id, t) :
              t \in { x \in titles : granted /\ ~HoldsTitle(p_user_id, x) } }
     /\ profiles' = IF xpRows = {} THEN profiles
                    ELSE UpdateProfileXp(c, p_user_id,
                           profiles[p_user_id].xp + SumXpReward(xpRows))
     /\ result' = IF granted THEN "ok" ELSE "forbidden"

\* The loop shared by check_and_award_quest_rewards and
\* check_and_award_achievement_rewards, run over the selected reward rows in
\* one transaction: award_badge and award_title for the rows that name one,
\* `update profiles set xp = xp + v_reward.xp_reward` for the rows with xp.
\* An insert refused by the policies of user_badges / user_titles raises, and
\* the whole call is rolled back.
AwardRewardRows(c, p_user_id, rows) ==
  LET badges == { r.badge_id : r \in { x \in rows : x.badge_id # NoItem } }
      titles == { r.title_id : r \in { x \in rows : x.title_id # NoItem } }
      xpRows == { r \in rows : r.xp_reward # NULL }
  IN IF (badges # {} \/ titles # {}) /\ ~GrantInsertPolicy(c)
       THEN /\ result' = "forbidden"
            /\ UNCHANGED <<profiles, user_badges, user_titles>>
     ELSE /\ user_badges' = user_badges \cup
               { NewUserBadge(p_user_id, b) : b \in { x \in badges : ~HoldsBadge(p_user_id, x) } }
          /\ user_titles' = user_titles \cup
               { NewUserTitle(p_user_id, t) : t \in { x \in titles : ~HoldsTitle(p_user_id, x) } }
          /\ profiles' = IF xpRows = {} THEN profiles
                         ELSE UpdateProfileXp(c, p_user_id,
                                profiles[p_user_id].xp + SumXpReward(xpRows))
          /\ result' = "ok"

\* The function with a select that leaves out `where quest_id = p_quest_id`.
check_and_award_quest_rewards_all_rows(c, p_user_id, p_quest_id) ==
  /\ pc[c] = "idle"
  /\ awards < MaxRewardCalls
  /\ awards' = awards + 1
  /\ AwardRewardRows(c, p_user_id, quest_rewards)
  /\ UNCHANGED <<user_quests, quest_submissions, now, pc, local, friendships,
                 quest_rewards, achievement_rewards, eval>>

\* check_and_award_quest_rewards(p_user_id, p_quest_id)
check_and_award_quest_rewards(c, p_user_id, p_quest_id) ==
  /\ pc[c] = "idle"
  /\ awards < MaxRewardCalls
  /\ awards' = awards + 1
  /\ AwardRewardRows(c, p_user_id, { r \in quest_rewards : r.quest_id = p_quest_id })
  /\ UNCHANGED <<user_quests, quest_submissions, now, pc, local, friendships,
                 quest_rewards, achievement_rewards, eval>>

\* check_and_award_achievement_rewards(p_user_id, p_achievement_id)
check_and_award_achievement_rewards(c, p_user_id, p_achievement_id) ==
  /\ pc[c] = "idle"
  /\ awards < MaxRewardCalls
  /\ awards' = awards + 1
  /\ AwardRewardRows(c, p_user_id,
                     { r \in achievement_rewards : r.achievement_id = p_achievement_id })
  /\ UNCHANGED <<user_quests, quest_submissions, now, pc, local, friendships,
                 quest_rewards, achievement_rewards, eval>>

\* The seed script's `insert into profiles (user_id, username, xp, level, ..)
\* values (<system id>, 'SYSTEM', 0, 0, ..) on conflict (user_id) do nothing`.
SystemUser == "SYSTEM"
seed_system_profile ==
  /\ pc[Owner] = "idle"
  /\ profiles' = IF SystemUser \in DOMAIN profiles THEN profiles
                 ELSE profiles @@ (SystemUser :> [xp |-> 0, level |-> 0])
  /\ result' = "ok"
  /\ UNCHANGED <<user_quests, quest_submissions, now, pc, local, awards>>
  /\ UNCHANGED engineVars

\* Reward definitions in place when awards are made: quest q1 has a row with
\* 100 xp and badge b1 and a row with 30 xp and title t1, quest q2 a row with
\* 50 xp, achievement a1 gives 50 xp.
SeedQuestRewards ==
  { QuestRewardRow({}, "q1", 100, "b1", NoItem),
    QuestRewardRow({}, "q1", 30, NoItem, "t1"),
    QuestRewardRow({}, "q2", 50, NoItem, NoItem) }

InitXp ==
  /\ user_quests = {}
  /\ quest_submissions = {}
  /\ profiles = [u \in Users |-> [xp |-> 0, level |-> 1]]
  /\ now = 0
  /\ pc = [c \in EngineCallers |-> "idle"]
  /\ local = [c \in EngineCallers |-> NoLocal]
  /\ result = NoResult
  /\ awards = 0
  /\ friendships = {}
  /\ user_badges = {}
  /\ user_titles = {}
  /\ quest_rewards = SeedQuestRewards
  /\ achievement_rewards = {AchievementRewardRow({}, "a1", NoItem, NoItem, 50)}
  /\ eval = NoEval

\* ------------------------------------------------------------ friend synergy
\* The clock of the synergy scenario counts seconds and moves in steps.
SecondsStep == 50
Elapse ==
  /\ now + SecondsStep <= MaxSeconds
  /\ now' = now + SecondsStep
  /\ UNCHANGED <<user_quests, quest_submissions, profiles, pc, local, result, awards>>
  /\ UNCHANGED engineVars

\* policy "Users can view own quest progress": using (auth.uid() = user_id)
UserQuestsSelectPolicy(c, r) == BypassesRls(c) \/ AuthUid(c) = r.user_id

\* policy "Users can view own friendships":
\* using (auth.uid() = user_id or auth.uid() = friend_id)
FriendshipsSelectPolicy(c, f) ==
  BypassesRls(c) \/ AuthUid(c) = f.user_id \/ AuthUid(c) = f.friend_id

Abs(x) == IF x < 0 THEN -x ELSE x

\* check_friend_synergy(p_user_id, p_quest_id, p_completed_at).  The function
\* is not security definer: its select sees the rows of user_quests and
\* friendships that the policies show to the caller c.
check_friend_synergy(c, p_user_id, p_quest_id, p_completed_at) ==
  \E uq \in { r \in user_quests : UserQuestsSelectPolicy(c, r) } :
    \E f \in { x \in friendships : FriendshipsSelectPolicy(c, x) } :
      /\ \/ (f.user_id = uq.user_id /\ f.friend_id = p_user_id)
         \/ (f.friend_id = uq.user_id /\ f.user_id = p_user_id)
      /\ uq.quest_id = p_quest_id
      /\ uq.is_completed
      /\ f.status = "accepted"
      /\ uq.completed_at # NULL
      /\ Abs(uq.completed_at - p_completed_at) <= 300

\* Assignment of the numeric n/10 to an integer variable: rounded to the
\* nearest integer, halves away from zero.
NumericTenthsToInteger(n) ==
  IF n >= 0 THEN (n + 5) \div 10 ELSE -((-n + 5) \div 10)

\* case when v_friend_bonus then v_base_xp * 1.1 else v_base_xp end
TotalXp(v_base_xp, v_friend_bonus) ==
  IF v_friend_bonus THEN NumericTenthsToInteger(v_base_xp * 11) ELSE v_base_xp

\* award_quest_completion_xp(p_user_id, p_quest_id): the selects of the base
\* reward, of the synergy at now() and of the current xp.
award_quest_completion_xp_Select(c, p_user_id, p_quest_id) ==
  /\ pc[c] = "idle"
  /\ awards < MaxCompletionAwards
  /\ awards' = awards + 1
  /\ pc' = [pc EXCEPT ![c] = "award_quest_completion_xp"]
  /\ LET v_friend_bonus == check_friend_synergy(c, p_user_id, p_quest_id, now)
     IN local' = [local EXCEPT ![c] =
          [p_user_id |-> p_user_id, p_quest_id |-> p_quest_id,
           p_completed_at |-> now,
           v_friend_bonus |-> v_friend_bonus,
           v_total_xp |-> TotalXp(base_xp_reward(p_quest_id), v_friend_bonus),
           v_current_xp |-> profiles[p_user_id].xp]]
  /\ UNCHANGED <<user_quests, quest_submissions, profiles, now, result>>
  /\ UNCHANGED engineVars

\* The update of award_quest_completion_xp paying the bonus share to the
\* user's accepted friends as well.
award_quest_completion_xp_Update_retroactive(c) ==
  /\ pc[c] = "award_quest_completion_xp"
  /\ profiles' =
       [u \in DOMAIN profiles |->
          IF u = local[c].p_user_id
            THEN UpdateProfileXp(c, u, local[c].v_current_xp + local[c].v_total_xp)[u]
          ELSE IF local[c].v_friend_bonus
            THEN UpdateProfileXp(c, u, profiles[u].xp
                                       + local[c].v_total_xp \div 11)[u]
          ELSE profiles[u]]
  /\ result' = "ok"
  /\ pc' = [pc EXCEPT ![c] = "idle"]
  /\ local' = [local EXCEPT ![c] = NoLocal]
  /\ UNCHANGED <<user_quests, quest_submissions, now, awards>>
  /\ UNCHANGED engineVars

\* award_quest_completion_xp: update profiles set xp = v_current_xp + v_total_xp
award_quest_completion_xp_Update(c) ==
  /\ pc[c] = "award_quest_completion_xp"
  /\ profiles' = UpdateProfileXp(c, local[c].p_user_id,
                                 local[c].v_current_xp + local[c].v_total_xp)
  /\ result' = "ok"
  /\ pc' = [pc EXCEPT ![c] = "idle"]
  /\ local' = [local EXCEPT ![c] = NoLocal]
  /\ UNCHANGED <<user_quests, quest_submissions, now, awards>>
  /\ UNCHANGED engineVars

\* The award functions of the schema called for either user, by a signed-in
\* user or by the table owner.
NextXp ==
  \/ seed_system_profile
  \/ \E c \in EngineCallers, u \in Users, st \in StepIds :
       award_step_xp_Select(c, u, StepRow(st).quest_id, st)
  \/ \E c \in EngineCallers : award_step_xp_Update(c)
  \/ \E c \in EngineCallers, u \in Users, q \in Quests :
       award_quest_completion_xp_Select(c, u, q)
  \/ \E c \in EngineCallers : award_quest_completion_xp_Update(c)
  \/ \E c \in EngineCallers, u \in Users, q \in Quests :
       check_and_award_quest_rewards(c, u, q)
  \/ \E c \in EngineCallers, u \in Users, a \in Achievements :
       check_and_award_achievement_rewards(c, u, a)

SpecXp == InitXp /\ [][NextXp]_vars

\* u1 and u2 are joined by a friendship row, in either direction, accepted,
\* still pending or blocked.
SeedFriendships ==
  { {[user_id |-> "u1", friend_id |-> "u2", status |-> "accepted"]},
    {[user_id |-> "u2", friend_id |-> "u1", status |-> "accepted"]},
    {[user_id |-> "u1", friend_id |-> "u2", status |-> "pending"]},
    {[user_id |-> "u1", friend_id |-> "u2", status |-> "blocked"]} }

\* A row of user_quests for a quest that was accepted at time 0 and is still
\* in progress.
InProgressUserQuest(id, u, q) ==
  [id |-> id, quest_id |-> q, user_id |-> u,
   is_accepted |-> TRUE, accepted_at |-> 0,
   is_completed |-> FALSE, completed_at |-> NULL,
   current_step |-> 1, last_submission_at |-> NULL]

\* The quest progress of u2 when u1's award is computed: q1 completed at time
\* 0, q1 still in progress, or q2 completed at time 0.
SeedCompletions ==
  { {CompletedUserQuest(<<<<"u2", "q1">>, 1>>, "u2", "q1")},
    {InProgressUserQuest(<<<<"u2", "q1">>, 1>>, "u2", "q1")},
    {CompletedUserQuest(<<<<"u2", "q2">>, 1>>, "u2", "q2")} }

InitSynergy ==
  /\ user_quests \in SeedCompletions
  /\ quest_submissions = {}
  /\ profiles = [u \in Users |-> [xp |-> 0, level |-> 1]]
  /\ now = 0
  /\ pc = [c \in EngineCallers |-> "idle"]
  /\ local = [c \in EngineCallers |-> NoLocal]
  /\ result = NoResult
  /\ awards = 0
  /\ friendships \in SeedFriendships
  /\ user_badges = {}
  /\ user_titles = {}
  /\ quest_rewards = {}
  /\ achievement_rewards = {}
  /\ eval = NoEval

NextSynergy ==
  \/ Elapse
  \/ \E c \in EngineCallers, u \in Users, q \in Quests :
       award_quest_completion_xp_Select(c, u, q)
  \/ \E c \in EngineCallers : award_quest_completion_xp_Update(c)

SpecSynergy == InitSynergy /\ [][NextSynergy]_vars

\* ------------------------------------------------------ leveling calculator
\* `select calculate_level(xp1), calculate_level(xp2)` for two xp totals.
calculate_level_Call ==
  /\ eval.level1 = NULL
  /\ eval' = [eval EXCEPT !.level1 = calculate_level(eval.xp1),
                           !.level2 = calculate_level(eval.xp2)]
  /\ UNCHANGED <<user_quests, quest_submissions, profiles, now, pc, local, result,
                 awards, friendships, user_badges, user_titles, quest_rewards,
                 achievement_rewards>>

\* Every pair of xp totals of the range, not yet evaluated.
InitLevel ==
  /\ user_quests = {}
  /\ quest_submissions = {}
  /\ profiles = [u \in Users |-> [xp |-> 0, level |-> 1]]
  /\ now = 0
  /\ pc = [s \in Sessions |-> "idle"]
  /\ local = [s \in Sessions |-> NoLocal]
  /\ result = NoResult
  /\ awards = 0
  /\ friendships = {}
  /\ user_badges = {}
  /\ user_titles = {}
  /\ quest_rewards = {}
  /\ achievement_rewards = {}
  /\ eval \in [xp1 : 0..MaxXp, xp2 : 0..MaxXp, level1 : {NULL}, level2 : {NULL}]

NextLevel == calculate_level_Call

SpecLevel == InitLevel /\ [][NextLevel]_vars

\* ------------------------------------------------------------ two users
\* One device of u1 and one of u2.
OwnerSessions == {"s1", "s3"}

InitOwnership ==
  /\ user_quests = {}
  /\ quest_submissions = {}
  /\ profiles = [u \in Users |-> [xp |-> 0, level |-> 1]]
  /\ now = 0
  /\ pc = [s \in OwnerSessions |-> "idle"]
  /\ local = [s \in OwnerSessions |-> NoLocal]
  /\ result = NoResult
  /\ awards = 0
  /\ InitEngineVars

\* The quest service used by two users, each call made in the caller's own
\* name or in the other user's.
NextOwnership ==
  \/ \E s \in OwnerSessions, q \in Quests, u \in Users : acceptQuest(s, q, u)
  \/ \E s \in OwnerSessions, u \in Users :
       submitQuestStepInsert(s, u, "q1", "st11", FALSE, TRUE)
  \/ \E s \in OwnerSessions : submitQuestStepUpdate(s)

SpecOwnership == InitOwnership /\ [][NextOwnership]_vars

\* ------------------------------------------------- submissions through the API
\* quest_submissions has row level security enabled and policies for select
\* and insert only.  An update or delete sent through the database API by a
\* signed-in user touches the rows the command's policy admits; a command
\* without a policy admits none and the call succeeds on zero rows.

\* quest_submissions with a policy letting users delete their own rows.
SubmissionsDeletePolicy_own(s, r) == AuthUid(s) = r.user_id

\* No policy "for delete" on quest_submissions.
SubmissionsDeletePolicy(s, r) == FALSE

\* No policy "for update" on quest_submissions.
SubmissionsUpdatePolicy(s, r) == FALSE

\* delete from quest_submissions where user_id = u, under the caller's token
delete_submissions(s, u) ==
  /\ pc[s] = "idle"
  /\ LET hit == { r \in quest_submissions :
                    r.user_id = u /\ SubmissionsDeletePolicy(s, r) }
     IN /\ quest_submissions' = quest_submissions \ hit
        /\ result' = IF hit = {} THEN "no_rows" ELSE "deleted"
  /\ UNCHANGED <<user_quests, profiles, now, pc, local, awards>>
  /\ UNCHANGED engineVars

\* update quest_submissions set step_id = st where user_id = u, under the
\* caller's token
update_submissions(s, u, st) ==
  /\ pc[s] = "idle"
  /\ LET hit == { r \in quest_submissions :
                    r.user_id = u /\ SubmissionsUpdatePolicy(s, r) }
     IN /\ quest_submissions' =
             (quest_submissions \ hit)
               \cup { [r EXCEPT !.step_id = st] : r \in hit }
        /\ result' = IF hit = {} THEN "no_rows" ELSE "updated"
  /\ UNCHANGED <<user_quests, profiles, now, pc, local, awards>>
  /\ UNCHANGED engineVars

InitSubmissions ==
  /\ user_quests = {}
  /\ quest_submissions = {}
  /\ profiles = [u \in Users |-> [xp |-> 0, level |-> 1]]
  /\ now = 0
  /\ pc = [s \in OwnerSessions |-> "idle"]
  /\ local = [s \in OwnerSessions |-> NoLocal]
  /\ result = NoResult
  /\ awards = 0
  /\ InitEngineVars

\* The quest service used by two users, together with the updates and deletes
\* of submissions that a signed-in user can send to the database API.
NextSubmissions ==
  \/ \E s \in OwnerSessions, q \in Quests : acceptQuest(s, q, AuthUid(s))
  \/ \E s \in OwnerSessions, q \in Quests :
       \E st \in StepInputs(q) : \E loc \in LocationInputs(st) :
          submitQuestStepInsert(s, AuthUid(s), q, st, loc, TRUE)
  \/ \E s \in OwnerSessions : submitQuestStepUpdate(s)
  \/ \E s \in OwnerSessions, u \in Users : delete_submissions(s, u)
  \/ \E s \in OwnerSessions, u \in Users : update_submissions(s, u, NoStep)

SpecSubmissions == InitSubmissions /\ [][NextSubmissions]_vars

TypeOK ==
  /\ now \in 0..MaxTime \/ now \in 0..MaxSeconds
  /\ awards \in 0..MaxAwards \/ awards \in 0..MaxRewardCalls
       \/ awards \in 0..MaxCompletionAwards
  /\ Cardinality(quest_submissions) <= MaxSubmissions
  /\ \A s \in DOMAIN pc :
       pc[s] \in {"idle", "inserted", "award_step_xp", "award_quest_completion_xp"}
  /\ \A u \in Users : profiles[u].xp >= 0
  /\ Cardinality(quest_rewards) <= MaxRewardDefs \/ Cardinality(quest_rewards) = 3
  /\ Cardinality(achievement_rewards) <= MaxRewardDefs

\* ==================================================================== claims
RowsIn(table, u, q) == { r \in table : r.user_id = u /\ r.quest_id = q }
SubmissionsOf(table, u, q) == { x \in table : x.user_id = u /\ x.quest_id = q }

\* The pending submitQuestStep of session s is for the step at which row r
\* stands: same user and quest, a step of that quest, ordinal = current_step.
SubmitsExpectedStep(s, r) ==
  /\ pc[s] = "inserted"
  /\ r.user_id = local[s].user_id /\ r.quest_id = local[s].quest_id
  /\ local[s].step_id \in StepIds
  /\ StepRow(local[s].step_id).quest_id = r.quest_id
  /\ StepRow(local[s].step_id).step_number = r.current_step

\* C1: for an accepted, not completed UserQuest with currentStep = k, a
\* successful SubmitStep for the step with ordinal k leaves the row with
\* currentStep = k + 1.
C1_SubmitAdvancesByOne ==
  [][\A s \in Sessions : \A r \in user_quests :
       (/\ submitQuestStepUpdate(s)
        /\ SubmitsExpectedStep(s, r)
        /\ r.is_accepted /\ ~r.is_completed)
       => \E r2 \in user_quests' :
            r2.id = r.id /\ r2.current_step = r.current_step + 1]_vars

\* C2: SubmitStep for a step whose ordinal differs from currentStep fails with
\* a validation error and changes nothing: no submission recorded, the
\* UserQuest row and the profiles as they were.
C2_OutOfOrderRejected ==
  [][\A s \in Sessions, q \in Quests : \A st \in StepIds, loc \in BOOLEAN :
       \A r \in RowsOf(AuthUid(s), q) :
         (/\ submitQuestStepInsert(s, AuthUid(s), q, st, loc, TRUE)
          /\ r.is_accepted /\ ~r.is_completed
          /\ StepRow(st).quest_id = q
          /\ StepRow(st).step_number # r.current_step)
         => /\ quest_submissions' = quest_submissions
            /\ user_quests' = user_quests
            /\ profiles' = profiles
            /\ result' = "validation_error"]_vars

\* C3: of two concurrent SubmitStep calls for the same user, quest and
\* expected step only one gets through: while both are pending on a UserQuest
\* that still stands at that step, exactly one QuestSubmission exists for it.
C3_ConcurrentSubmitOneWins ==
  \A s1 \in Sessions, s2 \in Sessions : \A r \in user_quests :
    (/\ s1 # s2
     /\ r.is_accepted /\ ~r.is_completed
     /\ SubmitsExpectedStep(s1, r) /\ SubmitsExpectedStep(s2, r)
     /\ local[s1].step_id = local[s2].step_id)
    => Cardinality({ x \in SubmissionsOf(quest_submissions, r.user_id, r.quest_id) :
                       x.step_id = local[s1].step_id }) = 1

\* C4: AcceptQuest for a (user, quest) pair that already has a UserQuest row,
\* in whatever state, fails with a conflict error and leaves the table as it
\* was.
C4_AcceptExactlyOnce ==
  [][\A s \in Sessions, q \in Quests, u \in Users :
       (RowsOf(u, q) # {} /\ acceptQuest(s, q, u))
       => (result' = "conflict" /\ user_quests' = user_quests)]_vars

\* A duplicate accept was just refused for a quest already in progress.
C4_Witness ==
  /\ result = "conflict"
  /\ \E r \in user_quests : r.is_accepted /\ ~r.is_completed
                            /\ r.last_submission_at # NULL

UniqueUserQuests(table) ==
  \A r1 \in table, r2 \in table :
    (r1.user_id = r2.user_id /\ r1.quest_id = r2.quest_id) => r1 = r2

\* C5: there is never more than one UserQuest row per (user, quest) pair, and
\* an AcceptQuest call creates the pair's row exactly when it reports success:
\* of several calls for one pair, one creates the row and the others fail.
C5_OneRowPerPair ==
  [][/\ UniqueUserQuests(user_quests)
     /\ UniqueUserQuests(user_quests')
     /\ \A s \in Sessions, q \in Quests, u \in Users :
          acceptQuest(s, q, u)
          => /\ (result' = "ok") => (RowsOf(u, q) = {})
             /\ (AuthUid(s) = u /\ RowsOf(u, q) = {}) => (result' = "ok")
             /\ (result' = "ok") <=>
                  (Cardinality(RowsIn(user_quests', u, q)) = 1
                   /\ user_quests' # user_quests)]_vars

\* Both quests have their row and the latest accept was a refused duplicate.
C5_Witness ==
  /\ result = "conflict"
  /\ Cardinality(user_quests) = 2
  /\ \A r \in user_quests : r.is_accepted

\* C6: a successful SubmitStep for the final step of the quest leaves the
\* UserQuest completed, with completedAt set.
C6_FinalStepCompletes ==
  [][\A s \in Sessions : \A r \in user_quests :
       (/\ submitQuestStepUpdate(s)
        /\ SubmitsExpectedStep(s, r)
        /\ r.is_accepted /\ ~r.is_completed
        /\ r.current_step = NumSteps(r.quest_id))
       => \E r2 \in user_quests' :
            r2.id = r.id /\ r2.is_completed /\ r2.completed_at # NULL]_vars

\* C7: a completed UserQuest never changes again and collects no further
\* submissions.
C7_CompletedIsTerminal ==
  [][\A r \in user_quests :
       r.is_completed
       => /\ r \in user_quests'
          /\ SubmissionsOf(quest_submissions', r.user_id, r.quest_id)
               = SubmissionsOf(quest_submissions, r.user_id, r.quest_id)]_vars

\* C8: a user starting at xp = 0 who accepted the one-step quest q1 (step
\* reward 25, base reward 100) and whose submission of that step has gone
\* through has xp = 125, level = 2 and a completed UserQuest.
C8_EndToEnd ==
  \A r \in RowsOf("u1", "q1") :
    (/\ r.is_accepted /\ r.last_submission_at # NULL
     /\ \E x \in SubmissionsOf(quest_submissions, "u1", "q1") : x.step_id = "st11"
     /\ Cardinality(quest_submissions) = 1
     /\ \A s \in Sessions : pc[s] = "idle")
    => /\ profiles["u1"].xp = 125
       /\ profiles["u1"].level = 2
       /\ r.is_completed

\* Sum of step_xp_reward over the submissions of a table that name a step.
RECURSIVE StepXpTotal(_)
StepXpTotal(table) ==
  IF table = {} THEN 0
  ELSE LET x == CHOOSE y \in table : TRUE
       IN (IF x.step_id \in StepIds THEN StepRow(x.step_id).step_xp_reward ELSE 0)
          + StepXpTotal(table \ {x})

\* C9: every successful SubmitStep has added its step's stepXpReward to the
\* submitting user's xp: with no call pending, xp is at least the total of the
\* rewards of the steps submitted for accepted quests.
C9_StepXpAwarded ==
  (\A s \in Sessions : pc[s] = "idle")
  => profiles["u1"].xp >=
       StepXpTotal({ x \in quest_submissions :
                       /\ x.user_id = "u1"
                       /\ \E r \in RowsOf("u1", x.quest_id) :
                            r.is_accepted /\ ~r.is_completed })

\* C10: SubmitStep for a pair without an accepted UserQuest row fails with a
\* not-found error and records no submission.
C10_SubmitWithoutAcceptedRow ==
  [][\A s \in Sessions, q \in Quests :
       \A st \in StepIds, loc \in BOOLEAN :
         (/\ submitQuestStepInsert(s, AuthUid(s), q, st, loc, TRUE)
          /\ StepRow(st).quest_id = q
          /\ ~\E r \in RowsOf(AuthUid(s), q) : r.is_accepted)
         => /\ quest_submissions' = quest_submissions
            /\ profiles' = profiles
            /\ result' = "not_found"]_vars

\* C11: SubmitStep for a step that requires a check-in, called without a
\* check-in location, fails with a validation error and records nothing, so
\* that no submission of a check-in step lacks its location.
C11_CheckInLocationRequired ==
  [][\A s \in Sessions, q \in Quests : \A st \in StepIds :
       (/\ submitQuestStepInsert(s, AuthUid(s), q, st, FALSE, TRUE)
        /\ StepRow(st).quest_id = q
        /\ StepRow(st).requires_check_in
        /\ \E r \in RowsOf(AuthUid(s), q) :
              /\ r.is_accepted /\ ~r.is_completed
              /\ r.current_step = StepRow(st).step_number)
       => /\ quest_submissions' = quest_submissions
          /\ result' = "validation_error"
          /\ \A x \in quest_submissions' :
               (x.step_id \in StepIds /\ StepRow(x.step_id).requires_check_in)
               => x.check_in_location]_vars

\* C19: SubmitStep is all-or-nothing: whenever a submission exists for a step
\* of an accepted quest in progress, the UserQuest row has advanced past that
\* step.
C19_SubmitAllOrNothing ==
  \A r \in user_quests : \A x \in SubmissionsOf(quest_submissions, r.user_id, r.quest_id) :
    (/\ r.is_accepted /\ ~r.is_completed
     /\ x.step_id \in StepIds
     /\ StepRow(x.step_id).quest_id = r.quest_id)
    => r.current_step > StepRow(x.step_id).step_number

UniqueBadgeGrants(table) ==
  \A r1 \in table, r2 \in table :
    (r1.user_id = r2.user_id /\ r1.badge_id = r2.badge_id) => r1 = r2

UniqueTitleGrants(table) ==
  \A r1 \in table, r2 \in table :
    (r1.user_id = r2.user_id /\ r1.title_id = r2.title_id) => r1 = r2

SetCount(b, t, xp) ==
  (IF b # NoItem THEN 1 ELSE 0) + (IF t # NoItem THEN 1 ELSE 0)
  + (IF xp # NULL THEN 1 ELSE 0)

\* C18: every row of achievement_rewards has exactly one of badge, title and
\* xp set: an insert with none, two or all three set is rejected and leaves
\* the table as it was.
C18_AchievementRewardExactlyOne ==
  [][/\ \A r \in achievement_rewards' :
          SetCount(r.badge_id, r.title_id, r.xp_reward) = 1
     /\ \A c \in EngineCallers, a \in Achievements :
          \A b \in BadgeInputs, t \in TitleInputs, xp \in AchievementXpInputs :
            (insert_achievement_reward(c, a, b, t, xp) /\ SetCount(b, t, xp) # 1)
            => (achievement_rewards' = achievement_rewards /\ result' # "ok")]_vars

\* A row with only xp and a row with only a badge are in the table, and the
\* latest insert was turned down by the table's check.
C18_Witness ==
  /\ result = "achievement_rewards_check"
  /\ \E r \in achievement_rewards : r.xp_reward # NULL
  /\ \E r \in achievement_rewards : r.badge_id # NoItem

\* C14: every profile has level = calculate_level(xp), in every reachable
\* state.
C14_LevelMatchesXp ==
  \A u \in DOMAIN profiles : profiles[u].level = calculate_level(profiles[u].xp)

\* C15: xp is never negative and no step lowers the xp of a profile.
C15_XpNeverDecreases ==
  [][\A u \in DOMAIN profiles :
       /\ u \in DOMAIN profiles'
       /\ profiles'[u].xp >= 0
       /\ profiles'[u].xp >= profiles[u].xp]_vars

AcceptedFriends(a, b) ==
  \E f \in friendships :
    /\ f.status = "accepted"
    /\ (f.user_id = a /\ f.friend_id = b) \/ (f.user_id = b /\ f.friend_id = a)

\* C12: base xp 100, u1 and u2 accepted friends, u2 completed q1 at T = 0:
\* the quest-completion award of u1 made at T + 250 s adds 110 xp, the one made
\* at T + 400 s adds 100 xp.
C12_SynergyScenario ==
  [][\A c \in EngineCallers :
       (/\ award_quest_completion_xp_Update(c)
        /\ local[c].p_user_id = "u1" /\ local[c].p_quest_id = "q1"
        /\ AcceptedFriends("u1", "u2")
        /\ \E r \in RowsOf("u2", "q1") : r.is_completed /\ r.completed_at = 0)
       => /\ (local[c].p_completed_at = 250)
               => (profiles'["u1"].xp = profiles["u1"].xp + 110)
          /\ (local[c].p_completed_at = 400)
               => (profiles'["u1"].xp = profiles["u1"].xp + 100)]_vars

\* C20: a UserQuest row is created or changed only by its own user: whatever
\* a session does through the quest service, the rows that appear, disappear or
\* change in that step belong to the session's user.
C20_OnlyOwnerMutates ==
  [][\A s \in OwnerSessions :
       (\/ \E q \in Quests, u \in Users : acceptQuest(s, q, u)
        \/ \E u \in Users : submitQuestStepInsert(s, u, "q1", "st11", FALSE, TRUE)
        \/ submitQuestStepUpdate(s))
       => \A r \in (user_quests' \ user_quests) \cup (user_quests \ user_quests') :
            r.user_id = AuthUid(s)]_vars

\* Both users have rows, one of them written by a submission, and the latest
\* call was refused by a policy.
C20_Witness ==
  /\ result = "forbidden"
  /\ \E r \in user_quests : r.user_id = "u1"
  /\ \E r \in user_quests : r.user_id = "u2" /\ r.last_submission_at # NULL

\* C22: a successful AcceptQuest for a pair without a row adds exactly one row,
\* accepted, at step 1, with acceptedAt set, not completed and completedAt
\* unset; every other row and every profile stays as it was.
C22_AcceptCreatesRow ==
  [][\A s \in OwnerSessions, q \in Quests, u \in Users :
       (acceptQuest(s, q, u) /\ RowsOf(u, q) = {} /\ result' = "ok")
       => /\ user_quests \subseteq user_quests'
          /\ Cardinality(user_quests' \ user_quests) = 1
          /\ \A r \in user_quests' \ user_quests :
               /\ r.user_id = u /\ r.quest_id = q
               /\ r.is_accepted /\ r.current_step = 1
               /\ r.accepted_at = now /\ r.accepted_at # NULL
               /\ ~r.is_completed /\ r.completed_at = NULL
          /\ profiles' = profiles]_vars

\* Every pair of user and quest has been accepted and nothing was submitted:
\* the latest successful call was an accept made while the other user already
\* had rows.
C22_Witness ==
  /\ result = "ok"
  /\ quest_submissions = {}
  /\ Cardinality(user_quests) = 4
  /\ \A r \in user_quests : r.is_accepted /\ r.current_step = 1

\* C29: currentStep is an integer in 0..N+1 for a quest of N steps; it is 0
\* only before acceptance and within 1..N while the quest is accepted and not
\* completed.
C29_CurrentStepInRange ==
  \A r \in user_quests :
    /\ r.current_step \in 0..(NumSteps(r.quest_id) + 1)
    /\ (r.current_step = 0) => ~r.is_accepted
    /\ (r.is_accepted /\ ~r.is_completed)
         => r.current_step \in 1..NumSteps(r.quest_id)

\* C21: submissions are append-only and immutable: whatever operation runs,
\* every submission that exists stays in the table with all its fields, so
\* the set of submissions only grows.
C21_SubmissionsAppendOnly ==
  [][quest_submissions \subseteq quest_submissions']_vars

\* Two submissions are stored and a user's update or delete of submissions
\* has just been answered without touching a row.
C21_Witness ==
  /\ Cardinality(quest_submissions) = MaxSubmissions
  /\ result = "no_rows"

\* The caller may write the profile of u: the table owner, or u's own session.
MayUpdateProfile(c, u) == BypassesRls(c) \/ ProfilesUpdatePolicy(c, u)

\* C23: XP mutations are atomic deltas: the write of an XP award adds the
\* award's amount to the xp the profile holds when the write happens, so no
\* delta of a concurrent award is lost.
C23_AtomicDeltas ==
  [][\A c \in EngineCallers :
       /\ (award_step_xp_Update(c) /\ MayUpdateProfile(c, local[c].p_user_id))
            => profiles'[local[c].p_user_id].xp =
                 profiles[local[c].p_user_id].xp + local[c].v_step_xp
       /\ (award_quest_completion_xp_Update(c)
             /\ MayUpdateProfile(c, local[c].p_user_id))
            => profiles'[local[c].p_user_id].xp =
                 profiles[local[c].p_user_id].xp + local[c].v_total_xp]_vars

RewardRowsOf(q) == { r \in quest_rewards : r.quest_id = q }
RewardBadgesOf(q) == { r.badge_id : r \in { x \in RewardRowsOf(q) : x.badge_id # NoItem } }
RewardTitlesOf(q) == { r.title_id : r \in { x \in RewardRowsOf(q) : x.title_id # NoItem } }

\* The user holds, after the step, every badge and title the quest's reward
\* rows name.
HoldsAllRewardsOf(u, q) ==
  /\ \A b \in RewardBadgesOf(q) :
       \E g \in user_badges' : g.user_id = u /\ g.badge_id = b
  /\ \A t \in RewardTitlesOf(q) :
       \E g \in user_titles' : g.user_id = u /\ g.title_id = t

\* C26: applying the rewards of a quest is all-or-nothing: a call either
\* grants every badge and title of the quest's rows and adds the sum of
\* their xp (the level following), or leaves profiles, badges and titles as
\* they were.
C26_RewardsAllOrNothing ==
  [][\A c \in EngineCallers, u \in Users, q \in Quests :
       check_and_award_quest_rewards(c, u, q)
       => \/ UNCHANGED <<profiles, user_badges, user_titles>>
          \/ /\ HoldsAllRewardsOf(u, q)
             /\ profiles'[u].xp = profiles[u].xp + SumXpReward(RewardRowsOf(q))
             /\ profiles'[u].level = calculate_level(profiles'[u].xp)]_vars

\* A signed-in user applied the xp-only rewards of q2 to themselves, then
\* the rewards of q1 were refused at the badge grant: nothing of q1 was kept.
C26_Witness ==
  /\ result = "forbidden"
  /\ awards = 2
  /\ profiles["u1"].xp = 50
  /\ user_badges = {} /\ user_titles = {}

\* C28: after a successful application of a quest's rewards to a user, the
\* user holds every badge and title the quest's rows name, each once, the
\* newly granted ones not equipped, and (no synergy being involved) the xp
\* has grown by exactly the sum of the rows' xp; nothing else is granted, so
\* that rows of other quests have no effect.
C28_RewardsApplied ==
  [][\A c \in EngineCallers, u \in Users, q \in Quests :
       (check_and_award_quest_rewards(c, u, q) /\ result' = "ok"
          /\ MayUpdateProfile(c, u))
       => /\ \A b \in RewardBadgesOf(q) :
               Cardinality({ g \in user_badges' :
                               g.user_id = u /\ g.badge_id = b }) = 1
          /\ \A t \in RewardTitlesOf(q) :
               Cardinality({ g \in user_titles' :
                               g.user_id = u /\ g.title_id = t }) = 1
          /\ user_badges \subseteq user_badges'
          /\ user_titles \subseteq user_titles'
          /\ \A g \in user_badges' \ user_badges :
               g.user_id = u /\ g.badge_id \in RewardBadgesOf(q) /\ ~g.is_equipped
          /\ \A g \in user_titles' \ user_titles :
               g.user_id = u /\ g.title_id \in RewardTitlesOf(q) /\ ~g.is_equipped
          /\ profiles'[u].xp = profiles[u].xp + SumXpReward(RewardRowsOf(q))
          /\ \A v \in Users \ {u} : profiles'[v] = profiles[v]]_vars

\* The rewards of q1 were applied to u1, who had nothing: badge b1, title t1
\* and the 130 xp of its two rows.
C28_Witness ==
  /\ result = "ok"
  /\ awards = 1
  /\ profiles["u1"].xp = 130
  /\ \E g \in user_badges : g.user_id = "u1" /\ g.badge_id = "b1" /\ ~g.is_equipped
  /\ \E g \in user_titles : g.user_id = "u1" /\ g.title_id = "t1" /\ ~g.is_equipped

\* C30: completion rewards are applied at most once per user and quest: a
\* further application of a quest's rewards to a user who already holds the
\* badges and titles of that quest adds no xp and grants nothing.
C30_CompletionRewardsOnce ==
  [][\A c \in EngineCallers, u \in Users, q \in Quests :
       (/\ check_and_award_quest_rewards(c, u, q)
        /\ RewardBadgesOf(q) # {}
        /\ \A b \in RewardBadgesOf(q) : HoldsBadge(u, b))
       => /\ profiles'[u].xp = profiles[u].xp
          /\ user_badges' = user_badges
          /\ user_titles' = user_titles]_vars

\* The condition of the synergy bonus as the claim words it: an accepted
\* friendship of u, in either direction, whose other party has a completed
\* row for quest q with a completion time within 300 seconds of t.
SynergyCondition(u, q, t) ==
  \E f \in friendships :
    /\ f.status = "accepted"
    /\ u \in {f.user_id, f.friend_id}
    /\ \E r \in user_quests :
         /\ r.user_id \in {f.user_id, f.friend_id} \ {u}
         /\ r.quest_id = q
         /\ r.is_completed
         /\ Abs(r.completed_at - t) <= 300

\* C24: the synergy check made for user u and quest q at time t answers true
\* exactly when u has an accepted friend with a completion of q within 300
\* seconds of t (inclusive); pending or blocked friendships, rows still in
\* progress and completions of other quests never give the bonus.
C24_SynergyIff ==
  [][\A c \in EngineCallers, u \in Users, q \in Quests :
       award_quest_completion_xp_Select(c, u, q)
       => (local'[c].v_friend_bonus <=> SynergyCondition(u, q, now))]_vars

\* C25: with the bonus the xp applied is floor(base * 11 / 10), without it
\* exactly the base amount.
C25_BonusTruncates ==
  [][\A c \in EngineCallers, u \in Users, q \in Quests :
       award_quest_completion_xp_Select(c, u, q)
       => local'[c].v_total_xp =
            IF local'[c].v_friend_bonus
              THEN (base_xp_reward(q) * 11) \div 10
              ELSE base_xp_reward(q)]_vars

\* C27: no retroactive synergy: the xp of a profile changes only when an
\* award made for that very user is applied; a quest-completion award made
\* for a friend afterwards, with or without bonus, leaves it as it is.
C27_NoRetroactiveSynergy ==
  [][\A u \in Users :
       (profiles'[u] # profiles[u])
       => \E c \in EngineCallers :
            /\ award_quest_completion_xp_Update(c)
            /\ local[c].p_user_id = u
            /\ profiles'[u].xp = profiles[u].xp + local[c].v_total_xp
               \/ profiles'[u].xp = local[c].v_current_xp + local[c].v_total_xp]_vars

\* Two awards were applied: u2, who completed q1, was paid 100 xp without
\* bonus, and the accepted friend u1 was paid 110 xp within the window; u2
\* holds 100, not 110.
C27_Witness ==
  /\ profiles["u2"].xp = 100
  /\ profiles["u1"].xp = 110
  /\ awards = 2
  /\ result = "ok"
  /\ \A c \in DOMAIN pc : pc[c] = "idle"

====
